---- MODULE Spec2Model ----
(***************************************************************************)
(* Record reconciliation pipeline of the public business collector:        *)
(* field/record normalization, deduplication keys, record merging and the  *)
(* deduplication fold (src/src/utils/deduplication.js), as driven by       *)
(* orchestrate (rows.map(normalizeRecord) followed by deduplicateRecords). *)
(* and by collectFromAllSources (both fetchers, deduplicateRecords, sort,  *)
(* slice).                                                                 *)
(*                                                                         *)
(* JavaScript values are tagged records: strings are sequences of          *)
(* one-character strings, confidences are numbers in hundredths (0.5 is    *)
(* 50), a thrown TypeError is the value TypeError.                         *)
(***************************************************************************)
EXTENDS Integers, Sequences, FiniteSets, TLC

VARIABLES
    pc,        \* position of orchestrate: "normalize", "dedup", "done", "failed"
    rows,      \* result.rows: the candidate rows, then the normalized rows
    idx,       \* position of the for-of loop of deduplicateRecords in rows
    seen,      \* the Map seen: key -> record
    order,     \* insertion order of the keys of seen (Map iteration order)
    keys,      \* the value of the local `key` at each iteration so far
    lastMerge, \* the locals existing / record / merged of the last merge
    entropy,   \* number of Date.now()/Math.random() draws made so far
    out,       \* the array returned by deduplicateRecords
    inputs,    \* the record objects of the array handed to deduplicateRecords
    alias,     \* key -> index of the input object stored in seen, or Fresh
    returned,  \* the object returned by orchestrate
    ppc,         \* position of orchestrate on a raw response: "parse", "done"
    llmResponse, \* the text returned by callLLM
    llmResult,   \* what parseLLMResponse returned or threw
    fpc,            \* position of a fetcher: "start", "delay", "request",
                    \* "await", "returned", "threw"
    fsource,        \* which fetcher runs
    fmax,           \* its parameter maxResults
    results,        \* its local array results
    page,           \* the local page of fetchFromOpenCorporates
    nextPageToken,  \* whether nextPageToken of fetchFromGooglePlaces is set
    events,         \* the requests, responses and delays so far, in order
    gathered,       \* the records pushed from each page so far
    fout,           \* what the fetcher returned
    spc,          \* position of the scoring driver: "input", "scored"
    place,        \* the argument place of calculateConfidence (Google Places)
    details,      \* its argument details
    company,      \* the argument company of calculateConfidence (OpenCorporates)
    currentYear,  \* new Date().getFullYear()
    score,        \* what calculateConfidence returned
    npc,       \* position of the normalizer driver: "input", "once", "twice"
    cand,      \* the candidate record handed to normalizeRecord
    norm1,     \* normalizeRecord(cand)
    norm2,     \* normalizeRecord(normalizeRecord(cand))
    cpc,          \* position of collectFromAllSources: "google",
                  \* "opencorporates", "combine", "done"
    maxResults,   \* the parameter maxResults
    googleKey,    \* whether process.env.GOOGLE_MAPS_API_KEY is set
    calls,        \* what each fetcher call did: source, outcome, records
    allResults,   \* the array allResults
    sourcesUsed,  \* the array sourcesUsed
    errors,       \* the array errors
    deduplicated, \* the array deduplicated (sorted in place by sort)
    result        \* the object returned by collectFromAllSources

vars == <<pc, rows, idx, seen, order, keys, lastMerge, entropy, out,
          inputs, alias, returned, ppc, llmResponse, llmResult,
          fpc, fsource, fmax, results, page, nextPageToken, events, gathered,
          fout, spc, place, details, company, currentYear, score,
          npc, cand, norm1, norm2,
          cpc, maxResults, googleKey, calls, allResults, sourcesUsed, errors,
          deduplicated, result>>

pipeVars == <<pc, rows, idx, seen, order, keys, lastMerge, entropy, out,
              inputs, alias>>
parseVars == <<ppc, llmResponse, llmResult>>
fetchVars == <<fpc, fsource, fmax, results, page, nextPageToken, events,
               gathered, fout>>
scoreVars == <<spc, place, details, company, currentYear, score>>
normVars == <<npc, cand, norm1, norm2>>
collectVars == <<cpc, maxResults, googleKey, calls, allResults, sourcesUsed,
                 errors, deduplicated, result>>

(***************************************************************************)
(* Bounds of the model.                                                    *)
(***************************************************************************)
MaxRows == 3      \* longest candidate sequence handed to the pipeline
MaxDigits == 12   \* most digits in a phone input
MaxWww == 2       \* most leading "www." labels in a URL input
MaxQuota == 5     \* largest maxResults handed to collectFromAllSources
MaxFetch == 3     \* largest maxResults handed to a fetcher
PageSize == 2     \* most records on one page of an upstream response
MaxDate == 4      \* longest incorporation_date, in characters
MaxTokens == 5    \* longest generative-text response, in tokens
MaxSlash == 2     \* most trailing slashes in a URL input

(***************************************************************************)
(* JavaScript values.                                                      *)
(***************************************************************************)
Null == [t |-> "null"]
Undefined == [t |-> "undefined"]
Str(s) == [t |-> "string", s |-> s]
Num(n) == [t |-> "number", n |-> n]
TypeError == [t |-> "TypeError"]
Array(a) == [t |-> "array", a |-> a]

IsStr(v) == v.t = "string"
IsNullish(v) == v.t \in {"null", "undefined"}

\* ToBoolean: what `if (v)`, `!v`, `a || b` and filter(Boolean) test.
Truthy(v) ==
    CASE v.t = "string" -> v.s # <<>>
      [] v.t = "number" -> v.n # 0
      [] OTHER -> FALSE

(***************************************************************************)
(* Strings.                                                                *)
(***************************************************************************)
LowerLetters == <<"a","b","c","d","e","f","g","h","i","j","k","l","m",
                  "n","o","p","q","r","s","t","u","v","w","x","y","z">>
UpperLetters == <<"A","B","C","D","E","F","G","H","I","J","K","L","M",
                  "N","O","P","Q","R","S","T","U","V","W","X","Y","Z">>
Digits == {"0","1","2","3","4","5","6","7","8","9"}
Whitespace == {" "}

IndexIn(c, letters) == CHOOSE k \in 1..Len(letters) : letters[k] = c
InSeq(c, letters) == \E k \in 1..Len(letters) : letters[k] = c

toLowerCase(s) ==
    [k \in 1..Len(s) |->
        IF InSeq(s[k], UpperLetters)
        THEN LowerLetters[IndexIn(s[k], UpperLetters)] ELSE s[k]]

toUpperCase(s) ==
    [k \in 1..Len(s) |->
        IF InSeq(s[k], LowerLetters)
        THEN UpperLetters[IndexIn(s[k], LowerLetters)] ELSE s[k]]

startsWith(s, p) == Len(s) >= Len(p) /\ SubSeq(s, 1, Len(p)) = p

RECURSIVE TrimStart(_)
TrimStart(s) ==
    IF s # <<>> /\ Head(s) \in Whitespace THEN TrimStart(Tail(s)) ELSE s

RECURSIVE TrimEnd(_)
TrimEnd(s) ==
    IF s # <<>> /\ s[Len(s)] \in Whitespace
    THEN TrimEnd(SubSeq(s, 1, Len(s) - 1)) ELSE s

trim(s) == TrimEnd(TrimStart(s))

IsDigit(c) == c \in Digits

\* phone.replace(/\D/g, '')
StripNonDigits(s) == SelectSeq(s, IsDigit)

S_plus == <<"+">>
S_plus1 == <<"+", "1">>
S_http == <<"h","t","t","p",":","/","/">>
S_https == <<"h","t","t","p","s",":","/","/">>
S_www == <<"w","w","w",".">>
S_US == <<"U","S">>
S_sep == <<" ","|"," ">>

(***************************************************************************)
(* normalizePhone                                                          *)
(***************************************************************************)
USDigits == 10
USDigitsWithCountry == 11

\* A faulty normalizer without the 10-digit US case.
normalizePhoneNoUS(phone) ==
    IF ~Truthy(phone) THEN Null
    ELSE IF ~IsStr(phone) THEN TypeError
    ELSE LET digits == StripNonDigits(phone.s) IN
         IF startsWith(phone.s, S_plus) THEN phone
         ELSE Str(S_plus \o digits)

normalizePhone(phone) ==
    IF ~Truthy(phone) THEN Null
    ELSE IF ~IsStr(phone) THEN TypeError      \* phone.replace is not a function
    ELSE LET digits == StripNonDigits(phone.s) IN
         IF Len(digits) = USDigits THEN Str(S_plus1 \o digits)
         ELSE IF Len(digits) = USDigitsWithCountry /\ Head(digits) = "1"
              THEN Str(S_plus \o digits)
         ELSE IF startsWith(phone.s, S_plus) THEN phone
         ELSE Str(S_plus \o digits)

(***************************************************************************)
(* normalizeUrl.  URLParse models `new URL(url).href` for the inputs the   *)
(* model draws: an http/https scheme followed by a host and a path made of *)
(* letters, digits, ".", "-", "/" and spaces (no port, userinfo, query or  *)
(* fragment).                                                              *)
(***************************************************************************)
HostChars == {LowerLetters[k] : k \in 1..Len(LowerLetters)}
             \cup {UpperLetters[k] : k \in 1..Len(UpperLetters)}
             \cup Digits \cup {".", "-"}

RECURSIVE SkipSlashes(_)
SkipSlashes(s) == IF s # <<>> /\ Head(s) = "/" THEN SkipSlashes(Tail(s)) ELSE s

\* Length of the longest prefix of s that holds no "/".
RECURSIVE HostLen(_)
HostLen(s) == IF s = <<>> \/ Head(s) = "/" THEN 0 ELSE 1 + HostLen(Tail(s))

URLParse(url) ==
    LET input  == trim(url)     \* leading and trailing spaces are stripped
        secure == startsWith(input, S_https)
        scheme == IF secure THEN S_https ELSE S_http
        rest   == SkipSlashes(SubSeq(input, Len(scheme) - 1, Len(input)))
        n      == HostLen(rest)
        host   == SubSeq(rest, 1, n)
        path   == SubSeq(rest, n + 1, Len(rest))
    IN  IF ~(startsWith(input, S_https) \/ startsWith(input, S_http))
           \/ host = <<>>
           \/ \E k \in 1..n : host[k] \notin HostChars
        THEN [ok |-> FALSE, href |-> <<>>]
        ELSE [ok |-> TRUE,
              href |-> scheme \o toLowerCase(host)
                       \o (IF path = <<>> THEN <<"/">> ELSE path)]

\* .replace(/\/$/, '')
StripTrailingSlash(s) ==
    IF s # <<>> /\ s[Len(s)] = "/" THEN SubSeq(s, 1, Len(s) - 1) ELSE s

\* .replace(/^https?:\/\/www\./, 'https://')
CollapseWww(s) ==
    IF startsWith(s, S_https \o S_www)
    THEN S_https \o SubSeq(s, Len(S_https) + Len(S_www) + 1, Len(s))
    ELSE IF startsWith(s, S_http \o S_www)
    THEN S_https \o SubSeq(s, Len(S_http) + Len(S_www) + 1, Len(s))
    ELSE s

normalizeUrl(url) ==
    IF ~Truthy(url) THEN Null
    ELSE IF ~IsStr(url) THEN url     \* url.startsWith throws inside the try
    ELSE LET u == IF ~startsWith(url.s, S_http) /\ ~startsWith(url.s, S_https)
                  THEN S_https \o url.s ELSE url.s
             parsed == URLParse(u)
         IN  IF parsed.ok
             THEN Str(CollapseWww(StripTrailingSlash(parsed.href)))
             ELSE Str(u)             \* catch: the reassigned url

(***************************************************************************)
(* normalizeRecord                                                         *)
(***************************************************************************)
Fields == {"business_name", "category", "street", "city", "state",
           "postal_code", "country", "phone", "email", "website",
           "source_url", "confidence", "notes"}

\* Property read: a key the object lacks reads as undefined.
Get(r, f) == IF f \in DOMAIN r THEN r[f] ELSE Undefined

\* v?.trim()
OptTrim(v) ==
    IF IsNullish(v) THEN Undefined
    ELSE IF IsStr(v) THEN Str(trim(v.s))
    ELSE TypeError                   \* v.trim is not a function

\* x?.toUpperCase() / x?.toLowerCase() on the result of OptTrim
OptUpper(v) == IF IsStr(v) THEN Str(toUpperCase(v.s)) ELSE v
OptLower(v) == IF IsStr(v) THEN Str(toLowerCase(v.s)) ELSE v

\* x || dflt
OrElse(v, dflt) == IF v = TypeError THEN TypeError
                   ELSE IF Truthy(v) THEN v ELSE dflt

DefaultConfidence == 50

\* typeof record.confidence === 'number' ? record.confidence : 0.5
ConfidenceOf(record) ==
    IF Get(record, "confidence").t = "number"
    THEN Get(record, "confidence")
    ELSE Num(DefaultConfidence)

normalizeRecord(record) ==
    LET r == [
          business_name |-> OrElse(OptTrim(Get(record, "business_name")), Null),
          category      |-> OrElse(OptTrim(Get(record, "category")), Null),
          street        |-> OrElse(OptTrim(Get(record, "street")), Null),
          city          |-> OrElse(OptTrim(Get(record, "city")), Null),
          state         |-> OrElse(OptUpper(OptTrim(Get(record, "state"))), Null),
          postal_code   |-> OrElse(OptTrim(Get(record, "postal_code")), Null),
          country       |-> OrElse(OptUpper(OptTrim(Get(record, "country"))),
                                   Str(S_US)),
          phone         |-> normalizePhone(Get(record, "phone")),
          email         |-> OrElse(OptLower(OptTrim(Get(record, "email"))), Null),
          website       |-> normalizeUrl(Get(record, "website")),
          source_url    |-> OrElse(OptTrim(Get(record, "source_url")), Null),
          confidence    |-> ConfidenceOf(record),
          notes         |-> OrElse(OptTrim(Get(record, "notes")), Null) ]
    IN  IF \E f \in Fields : r[f] = TypeError THEN TypeError ELSE r

(***************************************************************************)
(* getDeduplicationKey.  `draw` stands for the Date.now()/Math.random()    *)
(* pair of the call; successive draws are distinct.                        *)
(***************************************************************************)
S_website == <<"w","e","b","s","i","t","e",":">>
S_composite == <<"c","o","m","p","o","s","i","t","e",":">>
S_namezip == <<"n","a","m","e","-","z","i","p",":">>
S_source == <<"s","o","u","r","c","e",":">>
S_unique == <<"u","n","i","q","u","e",":">>
S_unknown == <<"u","n","k","n","o","w","n">>
S_colon == <<":">>

\* `${v}` for a string v
Render(v) == v.s

\* A faulty resolver that tries the composite tier before the website tier.
KeyTierCompositeFirst(record) ==
    IF Truthy(Get(record, "business_name")) /\ Truthy(Get(record, "phone"))
       /\ Truthy(Get(record, "postal_code")) THEN "composite"
    ELSE IF Truthy(Get(record, "website")) THEN "website"
    ELSE IF Truthy(Get(record, "business_name"))
            /\ Truthy(Get(record, "postal_code")) THEN "name-zip"
    ELSE IF Truthy(Get(record, "source_url")) THEN "source"
    ELSE "unique"

KeyTier(record) ==
    IF Truthy(Get(record, "website")) THEN "website"
    ELSE IF Truthy(Get(record, "business_name")) /\ Truthy(Get(record, "phone"))
            /\ Truthy(Get(record, "postal_code")) THEN "composite"
    ELSE IF Truthy(Get(record, "business_name"))
            /\ Truthy(Get(record, "postal_code")) THEN "name-zip"
    ELSE IF Truthy(Get(record, "source_url")) THEN "source"
    ELSE "unique"

\* A faulty fallback key that is the same for every call.
UniqueKeyConstant(draw) == S_unique

\* `unique:${Date.now()}:${Math.random()}`
UniqueKey(draw) == S_unique \o <<ToString(draw)>>

\* A faulty key that leaves the phone out of the composite tier.
getDeduplicationKeyNoPhone(record, draw) ==
    LET tier == KeyTier(record)
        name == Get(record, "business_name")
    IN  CASE tier = "website" ->
               S_website \o Render(record.website)
          [] tier \in {"composite", "name-zip"} ->
               S_namezip \o toLowerCase(name.s) \o S_colon
               \o Render(record.postal_code)
          [] tier = "source" ->
               S_source \o Render(record.source_url) \o S_colon
               \o (IF IsNullish(name) THEN S_unknown
                   ELSE toLowerCase(name.s))
          [] OTHER -> UniqueKey(draw)

getDeduplicationKey(record, draw) ==
    LET tier == KeyTier(record)
        name == Get(record, "business_name")
    IN  CASE tier = "website" ->
               S_website \o Render(record.website)
          [] tier = "composite" ->
               S_composite \o toLowerCase(name.s) \o S_colon
               \o Render(record.phone) \o S_colon \o Render(record.postal_code)
          [] tier = "name-zip" ->
               S_namezip \o toLowerCase(name.s) \o S_colon
               \o Render(record.postal_code)
          [] tier = "source" ->
               S_source \o Render(record.source_url) \o S_colon
               \o (IF IsNullish(name) THEN S_unknown
                   ELSE IF Truthy(Str(toLowerCase(name.s)))
                        THEN toLowerCase(name.s) ELSE S_unknown)
          [] OTHER -> UniqueKey(draw)

(***************************************************************************)
(* mergeRecords                                                            *)
(***************************************************************************)
\* [a, b].filter(Boolean).join(' | ')
JoinNotes(a, b) ==
    Str(IF Truthy(a) /\ Truthy(b) THEN Render(a) \o S_sep \o Render(b)
        ELSE IF Truthy(a) THEN Render(a)
        ELSE IF Truthy(b) THEN Render(b)
        ELSE <<>>)

\* a > b on numbers
Greater(a, b) == a.t = "number" /\ b.t = "number" /\ a.n > b.n

\* A faulty spread in the opposite order: { ...incoming, ...existing, notes }
MergeOverwriteSwapped(existing, incoming) ==
    [k \in DOMAIN existing \cup DOMAIN incoming \cup {"notes"} |->
        IF k = "notes"
        THEN JoinNotes(Get(existing, "notes"), Get(incoming, "notes"))
        ELSE IF k \in DOMAIN existing THEN existing[k] ELSE incoming[k]]

\* { ...existing, ...incoming, notes: ... }
MergeOverwrite(existing, incoming) ==
    [k \in DOMAIN existing \cup DOMAIN incoming \cup {"notes"} |->
        IF k = "notes"
        THEN JoinNotes(Get(existing, "notes"), Get(incoming, "notes"))
        ELSE IF k \in DOMAIN incoming THEN incoming[k] ELSE existing[k]]

\* A faulty fill that copies every truthy field of incoming over existing.
MergeFillAlways(existing, incoming) ==
    LET filled == {k \in DOMAIN incoming : Truthy(incoming[k])}
    IN  [k \in DOMAIN existing \cup filled \cup {"notes"} |->
            IF k = "notes"
            THEN JoinNotes(Get(existing, "notes"), Get(incoming, "notes"))
            ELSE IF k \in filled THEN incoming[k] ELSE existing[k]]

\* merged = { ...existing }; fill the falsy fields from incoming; notes
MergeFill(existing, incoming) ==
    LET filled == {k \in DOMAIN incoming :
                      ~Truthy(Get(existing, k)) /\ Truthy(incoming[k])}
    IN  [k \in DOMAIN existing \cup filled \cup {"notes"} |->
            IF k = "notes"
            THEN JoinNotes(Get(existing, "notes"), Get(incoming, "notes"))
            ELSE IF k \in filled THEN incoming[k] ELSE existing[k]]

\* A faulty merge that never takes the higher-confidence branch.
mergeRecordsFillOnly(existing, incoming) == MergeFill(existing, incoming)

mergeRecords(existing, incoming) ==
    IF Greater(Get(incoming, "confidence"), Get(existing, "confidence"))
    THEN MergeOverwrite(existing, incoming)
    ELSE MergeFill(existing, incoming)

(***************************************************************************)
(* deduplicateRecords: one iteration of the loop, and the whole function.  *)
(***************************************************************************)
EmptyMap == [k \in {} |-> Null]
NoMerge == [kind |-> "none"]

\* m.set(k, v)
MapSet(m, k, v) == [x \in DOMAIN m \cup {k} |-> IF x = k THEN v ELSE m[x]]

\* A faulty Map whose set moves a key already present to the end.
OrderSetMoveToEnd(ks, key) ==
    Append(SelectSeq(ks, LAMBDA k : k # key), key)

\* Iteration order of the Map after m.set(key, v): a key already present
\* keeps its position, a new key goes last.
OrderSet(ks, key) ==
    IF \E p \in 1..Len(ks) : ks[p] = key THEN ks
    ELSE Append(ks, key)

\* The loop body on `record`, from the state st = [seen, order, entropy].
DedupIteration(st, record) ==
    LET isUnique == KeyTier(record) = "unique"
        key == getDeduplicationKey(record, st.entropy + 1)
        has == key \in DOMAIN st.seen
    IN  [seen    |-> MapSet(st.seen, key,
                            IF has THEN mergeRecords(st.seen[key], record)
                            ELSE record),
         order   |-> OrderSet(st.order, key),
         entropy |-> IF isUnique THEN st.entropy + 1 ELSE st.entropy,
         key     |-> key,
         merge   |-> IF has
                     THEN [kind |-> "merge", existing |-> st.seen[key],
                           incoming |-> record,
                           merged |-> mergeRecords(st.seen[key], record)]
                     ELSE NoMerge]

\* A faulty return of the unused local `deduplicated` (always empty).
MapValuesUnused(st) == <<>>

\* Array.from(seen.values())
MapValues(st) == [k \in 1..Len(st.order) |-> st.seen[st.order[k]]]

RECURSIVE DedupLoop(_, _)
DedupLoop(st, records) ==
    IF records = <<>> THEN st
    ELSE DedupLoop(DedupIteration(st, Head(records)), Tail(records))

deduplicateRecords(records, draws) ==
    MapValues(DedupLoop([seen |-> EmptyMap, order |-> <<>>, entropy |-> draws],
                        records))

(***************************************************************************)
(* Candidate rows handed to the pipeline (result.rows of the parsed LLM    *)
(* response): sample records of every key tier, with and without notes,    *)
(* in raw source formats.                                                  *)
(***************************************************************************)
T_web == <<"a","b","c",".","c","o">>
T_webWww == <<"w","w","w",".","a","b","c",".","c","o","/">>
T_webHttp == <<"h","t","t","p",":","/","/","a","b","c",".","c","o">>
T_name == <<"A","b">>
T_nameUpper == <<" ","A","B"," ">>
T_phone == <<"8","1","3","5","5","5","1","2","3","4">>
T_phoneFmt == <<"(","8","1","3",")"," ","5","5","5","-","1","2","3","4">>
T_phoneIntl == <<"+","4","4"," ","2","0">>
T_zip == <<"3","3","6","0","1">>
T_src == <<"s",".","c","o","/","p">>
T_cat == <<"s","p","a">>
T_noteV == <<"v">>
T_noteW == <<"w">>

Confidences == {Num(40), Num(90)}

CandidatePool ==
    \* website only, bare or with a phone and a note
    {[website |-> Str(T_web), confidence |-> c] : c \in Confidences}
    \cup {[website |-> Str(T_web), phone |-> Str(T_phoneIntl),
           notes |-> Str(T_noteV), confidence |-> c] : c \in Confidences}
    \* website and name + phone + postal code
    \cup {[website |-> Str(T_webWww), business_name |-> Str(T_name),
           phone |-> Str(T_phoneFmt), postal_code |-> Str(T_zip),
           notes |-> Str(T_noteW), confidence |-> c] : c \in Confidences}
    \* name + phone + postal code
    \cup {[business_name |-> Str(T_name), phone |-> Str(T_phone),
           postal_code |-> Str(T_zip), confidence |-> c] : c \in Confidences}
    \* name + postal code, in two spellings
    \cup {[business_name |-> Str(n), postal_code |-> Str(T_zip),
           confidence |-> c] : n \in {T_name, T_nameUpper}, c \in Confidences}
    \* source url with and without a name
    \cup {[business_name |-> Str(T_name), source_url |-> Str(T_src),
           confidence |-> c] : c \in Confidences}
    \cup {[source_url |-> Str(T_src), notes |-> Str(T_noteV)]}
    \* no identity signal at all
    \cup {[category |-> Str(T_cat)],
          [business_name |-> Str(T_name), phone |-> Str(T_phone)]}
    \* the first website with an http scheme, and a confidence of 0
    \cup {[website |-> Str(T_webHttp), phone |-> Str(T_phone),
           notes |-> Str(T_noteV), confidence |-> Num(90)],
          [website |-> Str(T_web), confidence |-> Num(0)]}
    \* a numeric postal code, as a JSON number
    \cup {[business_name |-> Str(T_name), postal_code |-> Num(33601)]}

SeqsUpTo(S, n) == UNION {[1..k -> S] : k \in 0..n}

(***************************************************************************)
(* The pipeline of orchestrate: normalize every row, then deduplicate.     *)
(***************************************************************************)
CollectIdle ==
    /\ cpc = "idle"
    /\ maxResults = 0
    /\ googleKey = FALSE
    /\ calls = <<>>
    /\ allResults = <<>>
    /\ sourcesUsed = <<>>
    /\ errors = <<>>
    /\ deduplicated = <<>>
    /\ result = Null

FetchIdle ==
    /\ fpc = "idle"
    /\ fsource = ""
    /\ fmax = 0
    /\ results = <<>>
    /\ page = 0
    /\ nextPageToken = FALSE
    /\ events = <<>>
    /\ gathered = <<>>
    /\ fout = Null

ScoreIdle ==
    /\ spc = "idle"
    /\ place = Null
    /\ details = Null
    /\ company = Null
    /\ currentYear = 0
    /\ score = Null

ParseIdle ==
    /\ ppc = "idle"
    /\ llmResponse = <<>>
    /\ llmResult = Null
    /\ FetchIdle
    /\ ScoreIdle

NormIdle ==
    /\ npc = "idle"
    /\ cand = Null
    /\ norm1 = Null
    /\ norm2 = Null

Init ==
    /\ pc = "normalize"
    /\ rows \in SeqsUpTo(CandidatePool, MaxRows)
    /\ idx = 0
    /\ seen = EmptyMap
    /\ order = <<>>
    /\ keys = <<>>
    /\ lastMerge = NoMerge
    /\ entropy = 0
    /\ out = <<>>
    /\ inputs = <<>>
    /\ alias = EmptyMap
    /\ returned = Null
    /\ ParseIdle
    /\ NormIdle
    /\ CollectIdle

\* The object a stored record is after a merge: mergeRecords builds a new
\* object with a spread of existing, whatever object existing was.
Fresh == 0

\* A faulty merge that fills the gaps of existing itself.
MergedObjectShared(existing) == existing

MergedObject(existing) == Fresh

T_failure == <<"f","a","i","l">>

\* The meta fields set after deduplication.
SuccessMeta(beforeDedup, afterDedup) ==
    [total_found |-> Num(afterDedup),
     duplicates_removed |-> Num(beforeDedup - afterDedup)]

\* The object returned by the catch of orchestrate.
ErrorResult ==
    [meta |-> [total_found |-> Num(0), sources_used |-> Array(<<>>),
               error |-> Str(T_failure)],
     rows |-> <<>>]

\* result.rows = result.rows.map(normalizeRecord); a throw reaches the catch
\* of orchestrate.
NormalizeRows ==
    /\ pc = "normalize"
    /\ LET mapped == [k \in 1..Len(rows) |-> normalizeRecord(rows[k])]
       IN  IF \E k \in 1..Len(rows) : mapped[k] = TypeError
           THEN /\ pc' = "failed"
                /\ returned' = ErrorResult
                /\ UNCHANGED <<rows, idx, inputs>>
           ELSE /\ pc' = "dedup"
                /\ rows' = mapped
                /\ inputs' = mapped
                /\ idx' = 1
                /\ UNCHANGED returned
    /\ UNCHANGED <<seen, order, keys, lastMerge, entropy, out, alias>>
    /\ UNCHANGED normVars
    /\ UNCHANGED collectVars
    /\ UNCHANGED parseVars
    /\ UNCHANGED <<fetchVars, scoreVars>>

\* One iteration of `for (const record of records)`.
DedupStep ==
    /\ pc = "dedup"
    /\ idx <= Len(rows)
    /\ LET st == DedupIteration([seen |-> seen, order |-> order,
                                 entropy |-> entropy], rows[idx])
       IN  /\ seen' = st.seen
           /\ order' = st.order
           /\ entropy' = st.entropy
           /\ keys' = Append(keys, st.key)
           /\ lastMerge' = st.merge
           /\ LET target == IF st.merge = NoMerge THEN idx
                             ELSE MergedObject(alias[st.key])
              IN  /\ alias' = MapSet(alias, st.key, target)
                  /\ inputs' = IF st.merge # NoMerge /\ target # Fresh
                               THEN [inputs EXCEPT ![target] = st.merge.merged]
                               ELSE inputs
    /\ idx' = idx + 1
    /\ UNCHANGED <<pc, rows, out, returned>>
    /\ UNCHANGED normVars
    /\ UNCHANGED collectVars
    /\ UNCHANGED parseVars
    /\ UNCHANGED <<fetchVars, scoreVars>>

\* return Array.from(seen.values())
DedupReturn ==
    /\ pc = "dedup"
    /\ idx > Len(rows)
    /\ out' = MapValues([seen |-> seen, order |-> order])
    /\ returned' = [meta |-> SuccessMeta(Len(rows), Len(out')), rows |-> out']
    /\ pc' = "done"
    /\ UNCHANGED <<rows, idx, seen, order, keys, lastMerge, entropy,
                   inputs, alias>>
    /\ UNCHANGED normVars
    /\ UNCHANGED collectVars
    /\ UNCHANGED parseVars
    /\ UNCHANGED <<fetchVars, scoreVars>>

Next == NormalizeRows \/ DedupStep \/ DedupReturn

Spec == Init /\ [][Next]_vars

(***************************************************************************)
(* The Record Normalizer on its own: normalizeRecord applied to a          *)
(* candidate, and again to its own result.                                 *)
(***************************************************************************)
RECURSIVE Repeat(_, _)
Repeat(s, n) == IF n = 0 THEN <<>> ELSE s \o Repeat(s, n - 1)

\* n digits, the first one `first`, bare or written as "(ddd) ddd..."
PhoneDigits(n, first) == [k \in 1..n |-> IF k = 1 THEN first ELSE "5"]
PhoneStr(plus, n, first, fmt) ==
    (IF plus THEN S_plus ELSE <<>>)
    \o (IF fmt THEN <<"(">> ELSE <<>>)
    \o PhoneDigits(n, first)
    \o (IF fmt THEN <<")", " ">> ELSE <<>>)

PhoneInputs ==
    {Undefined, Null, Str(<<>>), Num(0), Num(5551234)}
    \cup {Str(PhoneStr(plus, n, first, fmt)) :
            plus \in BOOLEAN, n \in 0..MaxDigits,
            first \in {"1", "8"}, fmt \in BOOLEAN}

T_host == <<"A","b",".","c","o">>
T_text == <<"a"," ","b">>

UrlInputs ==
    {Undefined, Null, Str(<<>>), Num(0), Num(404)}
    \cup {Str(scheme \o Repeat(S_www, w) \o host \o Repeat(<<"/">>, sl)) :
            scheme \in {<<>>, S_http, S_https}, w \in 0..MaxWww,
            host \in {T_host, T_text}, sl \in 0..MaxSlash}

TextInputs == {Undefined, Null, Str(<<>>), Str(<<" ">>), Str(T_nameUpper), Num(7)}

T_state == <<" ","f","l">>
T_email == <<" ","A","@","b",".","C","o"," ">>

\* Confidences as a source may supply them: none, a number in [0,1], a
\* number outside it, a string.
ConfidenceInputs ==
    {Undefined, Null, Str(<<"9">>), Num(0), Num(90), Num(100), Num(150), Num(-10)}

BaseCandidate == [business_name |-> Str(T_name), source_url |-> Str(T_src)]

NormInputs ==
    {[f \in DOMAIN BaseCandidate \cup {"phone"} |->
        IF f = "phone" THEN p ELSE BaseCandidate[f]] : p \in PhoneInputs}
    \cup {[f \in DOMAIN BaseCandidate \cup {"website"} |->
        IF f = "website" THEN u ELSE BaseCandidate[f]] : u \in UrlInputs}
    \cup {[business_name |-> n, notes |-> n, state |-> s, country |-> s,
           email |-> e, confidence |-> c] :
            n \in TextInputs,
            s \in {Undefined, Str(T_state), Num(0)},
            e \in {Undefined, Str(T_email)},
            c \in ConfidenceInputs}

PipeIdle ==
    /\ pc = "idle"
    /\ rows = <<>>
    /\ idx = 0
    /\ seen = EmptyMap
    /\ order = <<>>
    /\ keys = <<>>
    /\ lastMerge = NoMerge
    /\ entropy = 0
    /\ out = <<>>
    /\ inputs = <<>>
    /\ alias = EmptyMap

InitNorm ==
    /\ PipeIdle
    /\ ParseIdle
    /\ returned = Null
    /\ npc = "input"
    /\ cand \in NormInputs
    /\ norm1 = Null
    /\ norm2 = Null
    /\ CollectIdle

NormalizeOnce ==
    /\ npc = "input"
    /\ norm1' = normalizeRecord(cand)
    /\ npc' = "once"
    /\ UNCHANGED <<cand, norm2>>
    /\ UNCHANGED pipeVars
    /\ UNCHANGED collectVars
    /\ UNCHANGED <<parseVars, returned>>
    /\ UNCHANGED <<fetchVars, scoreVars>>

NormalizeTwice ==
    /\ npc = "once"
    /\ norm1 # TypeError
    /\ norm2' = normalizeRecord(norm1)
    /\ npc' = "twice"
    /\ UNCHANGED <<cand, norm1>>
    /\ UNCHANGED pipeVars
    /\ UNCHANGED collectVars
    /\ UNCHANGED <<parseVars, returned>>
    /\ UNCHANGED <<fetchVars, scoreVars>>

NextNorm == NormalizeOnce \/ NormalizeTwice

SpecNorm == InitNorm /\ [][NextNorm]_vars

(***************************************************************************)
(* collectFromAllSources: both fetchers in turn, each in its own try, then *)
(* deduplicateRecords, sort by confidence, slice and return.               *)
(*                                                                         *)
(* A fetcher call has one of three outcomes: it returns the records it     *)
(* collected; a request fails inside its try and it returns the records    *)
(* collected so far; it throws before its try is entered.                  *)
(***************************************************************************)
GooglePlaces == "Google Places"
OpenCorporates == "OpenCorporates"

T_usa == <<"U","S","A">>
T_operational == <<"O","P","E","R","A","T","I","O","N","A","L">>
T_closed == <<"C","L","O","S","E","D">>
T_active == <<"a","c","t","i","v","e">>
T_goodStanding == <<"g","o","o","d"," ","s","t","a","n","d","i","n","g">>
T_activeCaps == <<"A","c","t","i","v","e">>
T_dissolved == <<"D","i","s","s","o","l","v","e","d">>
T_inGoodStanding == <<"I","n"," ","G","o","o","d"," ","S","t","a","n","d","i","n","g">>
T_gweb == <<"h","t","t","p",":","/","/","w","w","w",".","a","b","c",".","c","o","/">>
T_gwebBare == <<"h","t","t","p","s",":","/","/","a","b","c",".","c","o">>
T_nameCaps == <<"A","B">>
T_nameOther == <<"C","d">>
T_rating == <<"r">>
T_status == <<"s">>
T_message == <<"e","r","r">>

\* The business object built for one place.
GoogleBusiness(name, zip, phone, website, id, confidence) ==
    [business_name |-> Str(name), category |-> Str(T_cat), street |-> Null,
     city |-> Null, state |-> Null, postal_code |-> zip, country |-> Str(T_usa),
     phone |-> phone, email |-> Null, website |-> website,
     source_url |-> Str(<<"g", id>>), confidence |-> Num(confidence),
     notes |-> Str(T_rating), google_place_id |-> Str(<<id>>)]

\* Places as the API returns them: an operational place with website and
\* phone, an operational reviewed place with neither, and the first place
\* again with its website spelled in canonical form and a good rating.
GooglePool ==
    {GoogleBusiness(T_name, Str(T_zip), Str(T_phoneFmt), Str(T_gweb), "1", 75),
     GoogleBusiness(T_name, Str(T_zip), Null, Null, "2", 70),
     GoogleBusiness(T_name, Str(T_zip), Null, Str(T_gwebBare), "3", 75)}

\* The business object built for one company.
OpenCorporatesBusiness(name, zip, id, confidence) ==
    [business_name |-> Str(name), category |-> Str(T_cat), street |-> Null,
     city |-> Null, state |-> Null, postal_code |-> zip, country |-> Str(T_usa),
     phone |-> Null, email |-> Null, website |-> Null,
     source_url |-> Str(<<"o", id>>), confidence |-> Num(confidence),
     notes |-> Str(T_status), oc_company_number |-> Str(<<id>>)]

\* Companies as the registry returns them: the second place above as an
\* active company with an address, an active company without an address,
\* and an inactive company with an address.
OpenCorporatesPool ==
    {OpenCorporatesBusiness(T_nameCaps, Str(T_zip), "1", 85),
     OpenCorporatesBusiness(T_nameOther, Null, "2", 70),
     OpenCorporatesBusiness(T_nameOther, Str(T_zip), "3", 55)}

\* Math.ceil(maxResults / 2)
ResultsPerSource(n) == (n + 1) \div 2

\* The outcomes of a fetcher call asked for at most quota records.  A request
\* can fail only while fewer than quota records are collected.
FetchOutcomes(pool, quota) ==
    {[kind |-> "returned", records |-> r] : r \in SeqsUpTo(pool, quota)}
    \cup (IF quota > 0
          THEN {[kind |-> "requestFailed", records |-> r] :
                    r \in SeqsUpTo(pool, quota - 1)}
          ELSE {})
    \cup {[kind |-> "threw", records |-> <<>>]}

\* A faulty catch that drops the error.
CatchErrorDropped(errs, source) == errs

\* errors.push({ source, error: error.message })
CatchError(errs, source) ==
    Append(errs, [source |-> source, error |-> Str(T_message)])

\* v || 0 on a number
OrZero(v) == IF Truthy(v) THEN v.n ELSE 0

\* A faulty comparator that sorts by ascending confidence.
CompareConfidenceAscending(a, b) ==
    OrZero(Get(a, "confidence")) - OrZero(Get(b, "confidence"))

\* (a, b) => (b.confidence || 0) - (a.confidence || 0)
CompareConfidence(a, b) ==
    OrZero(Get(b, "confidence")) - OrZero(Get(a, "confidence"))

\* Array.prototype.sort is stable: x goes before the first element that the
\* comparator puts after it.
InsertSorted(sorted, x) ==
    LET after == {k \in 1..Len(sorted) : CompareConfidence(sorted[k], x) > 0}
        at == IF after = {} THEN Len(sorted) + 1
              ELSE CHOOSE k \in after : \A j \in after : k <= j
    IN  SubSeq(sorted, 1, at - 1) \o <<x>> \o SubSeq(sorted, at, Len(sorted))

RECURSIVE SortFrom(_, _)
SortFrom(sorted, rest) ==
    IF rest = <<>> THEN sorted
    ELSE SortFrom(InsertSorted(sorted, Head(rest)), Tail(rest))

\* arr.sort((a, b) => (b.confidence || 0) - (a.confidence || 0))
SortByConfidence(arr) == SortFrom(<<>>, arr)

\* arr.slice(0, end) for end >= 0
Slice(arr, end) == SubSeq(arr, 1, IF end < Len(arr) THEN end ELSE Len(arr))

InitCollect ==
    /\ PipeIdle
    /\ ParseIdle
    /\ returned = Null
    /\ NormIdle
    /\ cpc = "google"
    /\ maxResults \in 0..MaxQuota
    /\ googleKey \in BOOLEAN
    /\ calls = <<>>
    /\ allResults = <<>>
    /\ sourcesUsed = <<>>
    /\ errors = <<>>
    /\ deduplicated = <<>>
    /\ result = Null

\* One try block: call the fetcher; push its records and its name when it
\* returned any; push an error entry when it threw.
TryFetch(source, pool) ==
    \E o \in FetchOutcomes(pool, ResultsPerSource(maxResults)) :
        /\ calls' = Append(calls, [source |-> source, kind |-> o.kind,
                                   records |-> o.records])
        /\ IF o.kind = "threw"
           THEN /\ errors' = CatchError(errors, source)
                /\ UNCHANGED <<allResults, sourcesUsed>>
           ELSE /\ IF Len(o.records) > 0
                   THEN /\ allResults' = allResults \o o.records
                        /\ sourcesUsed' = Append(sourcesUsed, source)
                   ELSE UNCHANGED <<allResults, sourcesUsed>>
                /\ UNCHANGED errors

\* 1. Google Places, only with an API key configured.
FetchGoogle ==
    /\ cpc = "google"
    /\ IF googleKey
       THEN TryFetch(GooglePlaces, GooglePool)
       ELSE UNCHANGED <<calls, allResults, sourcesUsed, errors>>
    /\ cpc' = "opencorporates"
    /\ UNCHANGED <<maxResults, googleKey, deduplicated, result>>
    /\ UNCHANGED <<pipeVars, normVars>>
    /\ UNCHANGED <<parseVars, returned>>
    /\ UNCHANGED <<fetchVars, scoreVars>>

\* 2. OpenCorporates.
FetchOpenCorporates ==
    /\ cpc = "opencorporates"
    /\ TryFetch(OpenCorporates, OpenCorporatesPool)
    /\ cpc' = "combine"
    /\ UNCHANGED <<maxResults, googleKey, deduplicated, result>>
    /\ UNCHANGED <<pipeVars, normVars>>
    /\ UNCHANGED <<parseVars, returned>>
    /\ UNCHANGED <<fetchVars, scoreVars>>

\* 3. and 4.: deduplicate, sort in place, slice, return.
CombineAndReturn ==
    /\ cpc = "combine"
    /\ LET sorted == Slice(SortByConfidence(deduplicateRecords(allResults, 0)),
                           maxResults)
       IN  /\ deduplicated' = SortByConfidence(deduplicateRecords(allResults, 0))
           /\ result' =
                 [meta |-> [total_found  |-> Num(Len(sorted)),
                            sources_used |-> Array(sourcesUsed),
                            errors       |-> IF Len(errors) > 0
                                             THEN Array(errors)
                                             ELSE Undefined],
                  rows |-> sorted]
    /\ cpc' = "done"
    /\ UNCHANGED <<maxResults, googleKey, calls, allResults, sourcesUsed, errors>>
    /\ UNCHANGED <<pipeVars, normVars>>
    /\ UNCHANGED <<parseVars, returned>>
    /\ UNCHANGED <<fetchVars, scoreVars>>

NextCollect == FetchGoogle \/ FetchOpenCorporates \/ CombineAndReturn

SpecCollect == InitCollect /\ [][NextCollect]_vars

(***************************************************************************)
(* orchestrate on the raw text of the generative backend: callLLM,         *)
(* parseLLMResponse, then the processing of the parsed object.             *)
(*                                                                         *)
(* A response is a sequence of tokens: "{" and "}", the member list B      *)
(* ("meta":{},"rows":[]), the markdown fence F (```), a blank and a        *)
(* character x of prose.  The JSON texts over these tokens are {} and {B}, *)
(* with blanks anywhere.                                                   *)
(***************************************************************************)
Tokens == {"{", "}", "B", "F", " ", "x"}

Thrown(name) == [ok |-> FALSE, error |-> name, value |-> Null]
Value(v) == [ok |-> TRUE, error |-> "", value |-> v]

\* JSON.parse(text)
JSONparse(text) ==
    LET body == SelectSeq(text, LAMBDA c : c # " ")
    IN  IF body = <<"{", "}">> THEN Value(EmptyMap)
        ELSE IF body = <<"{", "B", "}">>
             THEN Value([meta |-> EmptyMap, rows |-> Array(<<>>)])
        ELSE Thrown("SyntaxError")

Blank(s, from, to) == \A k \in from..to : s[k] = " "
Least(S) == CHOOSE x \in S : \A y \in S : x <= y
Greatest(S) == CHOOSE x \in S : \A y \in S : y <= x

\* The ends q of a group { ... } opened at p that a closing fence follows.
FencedEnds(s, p) ==
    {q \in (p + 1)..Len(s) :
        /\ s[q] = "}"
        /\ \E f \in (q + 1)..Len(s) : s[f] = "F" /\ Blank(s, q + 1, f - 1)}

\* The openings p of a group after the fence at i.
FencedStart(s, i) ==
    {p \in (i + 1)..Len(s) :
        s[p] = "{" /\ Blank(s, i + 1, p - 1) /\ FencedEnds(s, p) # {}}

\* response.match(/```(?:json)?\s*(\{[\s\S]*\})\s*```/): group 1 of the
\* leftmost match, the longest one from there, or no match.
FenceMatch(s) ==
    LET starts == {i \in 1..Len(s) : s[i] = "F" /\ FencedStart(s, i) # {}}
    IN  IF starts = {} THEN [found |-> FALSE, text |-> <<>>]
        ELSE LET p == Least(FencedStart(s, Least(starts)))
             IN  [found |-> TRUE,
                  text |-> SubSeq(s, p, Greatest(FencedEnds(s, p)))]

\* response.match(/\{[\s\S]*\}/): from the first "{" that has a "}" after it
\* to the last "}".
ObjectMatch(s) ==
    LET closes == {q \in 1..Len(s) : s[q] = "}"}
        opens == {p \in 1..Len(s) : s[p] = "{" /\ \E q \in closes : p < q}
    IN  IF opens = {} THEN [found |-> FALSE, text |-> <<>>]
        ELSE [found |-> TRUE,
              text |-> SubSeq(s, Least(opens), Greatest(closes))]

\* A faulty parser that gives an empty result for text it cannot parse.
parseLLMResponseLenient(response) ==
    IF JSONparse(response).ok THEN JSONparse(response)
    ELSE IF FenceMatch(response).found /\ JSONparse(FenceMatch(response).text).ok
         THEN JSONparse(FenceMatch(response).text)
    ELSE IF ObjectMatch(response).found /\ JSONparse(ObjectMatch(response).text).ok
         THEN JSONparse(ObjectMatch(response).text)
    ELSE Value([meta |-> EmptyMap, rows |-> Array(<<>>)])

parseLLMResponse(response) ==
    IF JSONparse(response).ok THEN JSONparse(response)
    ELSE IF FenceMatch(response).found
         THEN JSONparse(FenceMatch(response).text)
    ELSE IF ObjectMatch(response).found
         THEN JSONparse(ObjectMatch(response).text)
    ELSE Thrown("Error")

\* The body of the try of orchestrate after the parse: normalize and
\* deduplicate result.rows when it is an array, then set the meta fields; a
\* write to a missing result.meta throws into the catch.
ProcessParsed(object) ==
    IF "rows" \in DOMAIN object
    THEN LET normalized == [k \in 1..Len(object.rows.a) |->
                               normalizeRecord(object.rows.a[k])]
             unique == deduplicateRecords(normalized, 0)
         IN  IF \E k \in 1..Len(normalized) : normalized[k] = TypeError
             THEN ErrorResult
             ELSE IF "meta" \notin DOMAIN object THEN ErrorResult
             ELSE [meta |-> SuccessMeta(Len(normalized), Len(unique)),
                   rows |-> unique]
    ELSE IF "meta" \notin DOMAIN object THEN ErrorResult
    ELSE [meta |-> object.meta]

InitParse ==
    /\ PipeIdle
    /\ FetchIdle
    /\ ScoreIdle
    /\ NormIdle
    /\ CollectIdle
    /\ ppc = "call"
    /\ llmResponse = <<>>
    /\ llmResult = Null
    /\ returned = Null

\* await callLLM(...): the backend answers with a text, or the call throws
\* and the catch returns the error result.
CallLLM ==
    /\ ppc = "call"
    /\ \/ /\ llmResponse' \in SeqsUpTo(Tokens, MaxTokens)
          /\ ppc' = "parse"
          /\ UNCHANGED returned
       \/ /\ returned' = ErrorResult
          /\ ppc' = "done"
          /\ UNCHANGED llmResponse
    /\ UNCHANGED llmResult
    /\ UNCHANGED <<pipeVars, normVars, collectVars>>
    /\ UNCHANGED <<fetchVars, scoreVars>>

\* parseLLMResponse(llmResponse) and the rest of orchestrate.
ParseAndProcess ==
    /\ ppc = "parse"
    /\ llmResult' = parseLLMResponse(llmResponse)
    /\ returned' = IF llmResult'.ok THEN ProcessParsed(llmResult'.value)
                   ELSE ErrorResult
    /\ ppc' = "done"
    /\ UNCHANGED llmResponse
    /\ UNCHANGED <<pipeVars, normVars, collectVars>>
    /\ UNCHANGED <<fetchVars, scoreVars>>

NextParse == CallLLM \/ ParseAndProcess

SpecParse == InitParse /\ [][NextParse]_vars

(***************************************************************************)
(* The pagination loop of a fetcher (fetchFromGooglePlaces and             *)
(* fetchFromOpenCorporates): argument checks, then page requests until     *)
(* maxResults records are gathered, the upstream has no further page, or a *)
(* request fails.  The upstream answers each request with a page of        *)
(* records and a further-page indication, with an error status, or not at  *)
(* all (the request is rejected); an item of a page can be malformed, so   *)
(* that its conversion throws.                                             *)
(***************************************************************************)
PoolOf(source) == IF source = GooglePlaces THEN GooglePool ELSE OpenCorporatesPool

\* What a page request can come back with.  A page lists the items converted
\* without trouble; broken says that a malformed item follows them.
Responses(source) ==
    {[kind |-> "fail", records |-> <<>>, more |-> FALSE, broken |-> FALSE]}
    \cup (IF source = GooglePlaces
          THEN {[kind |-> "badStatus", records |-> <<>>, more |-> FALSE,
                 broken |-> FALSE]}
          ELSE {})
    \cup {[kind |-> "page", records |-> r, more |-> m, broken |-> b] :
             r \in SeqsUpTo(PoolOf(source), PageSize), m \in BOOLEAN,
             b \in BOOLEAN}

\* A faulty catch that discards what was gathered.
CatchPartialDiscarded(rs) == <<>>

\* catch (error) { return results; }
CatchPartial(rs) == rs

\* A faulty loop body that pushes the whole page.
PushPageAll(rs, records, max) == records

\* The records of a page pushed by the for loop, which breaks as soon as
\* results.length >= maxResults.
PushPage(rs, records, max) ==
    SubSeq(records, 1, IF Len(rs) + Len(records) <= max THEN Len(records)
                       ELSE max - Len(rs))

\* A faulty loop that never waits.
DelayBeforeRequestNever(token) == FALSE

\* if (nextPageToken) { await delay(2000) }
DelayBeforeRequest(token) == token

InitFetch ==
    /\ PipeIdle
    /\ NormIdle
    /\ CollectIdle
    /\ ScoreIdle
    /\ ppc = "idle" /\ llmResponse = <<>> /\ llmResult = Null
    /\ returned = Null
    /\ fpc = "start"
    /\ fsource \in {GooglePlaces, OpenCorporates}
    /\ fmax \in 0..MaxFetch
    /\ results = <<>>
    /\ page = 1
    /\ nextPageToken = FALSE
    /\ events = <<>>
    /\ gathered = <<>>
    /\ fout = Null

\* return rs
FetchReturn(rs) ==
    /\ fpc' = "returned"
    /\ fout' = Value(rs)

\* The test of the while loop with rs gathered, and what follows it.
LoopTest(rs, token) ==
    IF Len(rs) < fmax
    THEN /\ fpc' = IF fsource = GooglePlaces /\ DelayBeforeRequest(token)
                   THEN "delay" ELSE "request"
         /\ UNCHANGED fout
    ELSE FetchReturn(rs)

\* The code before the loop: without an API key (Google Places) or a
\* jurisdiction (OpenCorporates) the fetcher returns []; an argument that
\* cannot be rendered or upper-cased throws, outside the try.
FetchStart ==
    /\ fpc = "start"
    /\ \E argument \in {"usable", "unconfigured", "unusable"} :
          CASE argument = "unconfigured" -> FetchReturn(<<>>)
            [] argument = "unusable" -> /\ fpc' = "threw"
                                        /\ fout' = Thrown("TypeError")
            [] OTHER -> LoopTest(results, nextPageToken)
    /\ UNCHANGED <<fsource, fmax, results, page, nextPageToken, events, gathered>>
    /\ UNCHANGED <<pipeVars, normVars, collectVars, parseVars, scoreVars, returned>>

\* await new Promise(resolve => setTimeout(resolve, ...))
Delay ==
    /\ fpc = "delay"
    /\ events' = Append(events, "delay")
    /\ IF fsource = GooglePlaces
       THEN fpc' = "request" /\ UNCHANGED fout
       ELSE LoopTest(results, nextPageToken)
    /\ UNCHANGED <<fsource, fmax, results, page, nextPageToken, gathered>>
    /\ UNCHANGED <<pipeVars, normVars, collectVars, parseVars, scoreVars, returned>>

\* axios.get(url, { params }) is issued.
SendRequest ==
    /\ fpc = "request"
    /\ events' = Append(events, "request")
    /\ fpc' = "await"
    /\ UNCHANGED <<fsource, fmax, results, page, nextPageToken, gathered, fout>>
    /\ UNCHANGED <<pipeVars, normVars, collectVars, parseVars, scoreVars, returned>>

\* The awaited request settles and the rest of the iteration runs.
ReceiveResponse ==
    /\ fpc = "await"
    /\ \E r \in Responses(fsource) :
          LET pushed == PushPage(results, r.records, fmax)
              rs == results \o pushed
          IN  CASE r.kind = "fail" ->
                     /\ events' = Append(events, "failure")
                     /\ FetchReturn(CatchPartial(results))
                     /\ UNCHANGED <<results, page, nextPageToken, gathered>>
                [] r.kind = "badStatus" ->
                     /\ events' = Append(events, "response")
                     /\ FetchReturn(results)
                     /\ UNCHANGED <<results, page, nextPageToken, gathered>>
                [] r.kind = "page" /\ r.records = <<>> /\ ~r.broken ->
                     /\ events' = Append(events, "response")
                     /\ FetchReturn(results)
                     /\ UNCHANGED <<results, page, nextPageToken, gathered>>
                [] OTHER ->
                     /\ events' = Append(events, "response")
                     /\ results' = rs
                     /\ gathered' = Append(gathered, pushed)
                     /\ IF Len(rs) < fmax /\ r.broken
                        THEN /\ FetchReturn(CatchPartial(rs))
                             /\ UNCHANGED <<page, nextPageToken>>
                        ELSE IF fsource = GooglePlaces
                        THEN /\ nextPageToken' = r.more
                             /\ UNCHANGED page
                             /\ IF r.more THEN LoopTest(rs, r.more)
                                ELSE FetchReturn(rs)
                        ELSE /\ UNCHANGED nextPageToken
                             /\ IF r.more
                                THEN /\ page' = page + 1
                                     /\ fpc' = "delay"
                                     /\ UNCHANGED fout
                                ELSE /\ FetchReturn(rs)
                                     /\ UNCHANGED page
    /\ UNCHANGED <<fsource, fmax>>
    /\ UNCHANGED <<pipeVars, normVars, collectVars, parseVars, scoreVars, returned>>

NextFetch == FetchStart \/ Delay \/ SendRequest \/ ReceiveResponse

SpecFetch == InitFetch /\ [][NextFetch]_vars

\* Every request eventually returns or fails, and the fetcher keeps running.
SpecFetchLive == SpecFetch /\ WF_vars(NextFetch)

(***************************************************************************)
(* The confidence scores of the two fetchers.  A score is a number of      *)
(* hundredths; every term of the sums below is a whole number of           *)
(* hundredths, so Math.round(score * 100) / 100 gives the sum back.  A     *)
(* rating is a number of tenths.                                           *)
(***************************************************************************)
Minimum(a, b) == IF a <= b THEN a ELSE b

\* Math.round(score * 100) / 100, on hundredths
RoundHundredths(h) == h

\* The terms added to the base score of a place.
PlaceBonus(p, d) ==
    (IF Truthy(Get(p, "rating")) /\ p.rating.n >= 40 THEN 15 ELSE 0)
    + (IF Truthy(Get(p, "user_ratings_total")) /\ p.user_ratings_total.n >= 10
       THEN 10 ELSE 0)
    + (IF Get(p, "business_status") = Str(T_operational) THEN 10 ELSE 0)
    + (IF Truthy(Get(d, "website")) THEN 10 ELSE 0)
    + (IF Truthy(Get(d, "formatted_phone_number")) THEN 5 ELSE 0)

\* A faulty score that leaves out the base.
calculateConfidencePlacesNoBase(p, d) ==
    Num(Minimum(100, RoundHundredths(PlaceBonus(p, d))))

\* calculateConfidence(place, details) of google-places.js
calculateConfidencePlaces(p, d) ==
    Num(Minimum(100, RoundHundredths(50 + PlaceBonus(p, d))))

\* /active|good standing/i.test(s)
StatusMatch(s) ==
    LET low == toLowerCase(s)
        Has(sub) == \E k \in 0..(Len(low) - Len(sub)) :
                        SubSeq(low, k + 1, k + Len(sub)) = sub
    IN  Has(T_active) \/ Has(T_goodStanding)

\* s.match(/(\d{4})/): the positions where four digits in a row start
YearStarts(s) ==
    {k \in 1..(Len(s) - 3) : \A j \in k..(k + 3) : IsDigit(s[j])}

DigitValue(c) ==
    CHOOSE n \in 0..9 : <<"0","1","2","3","4","5","6","7","8","9">>[n + 1] = c

\* parseInt(yearMatch[1])
ParseYear(s) ==
    LET k == Least(YearStarts(s))
    IN  1000 * DigitValue(s[k]) + 100 * DigitValue(s[k + 1])
        + 10 * DigitValue(s[k + 2]) + DigitValue(s[k + 3])

\* The incorporation term of the score, for a string incorporation_date.
IncorporationBonus(date, year) ==
    IF YearStarts(date) = {} THEN 0
    ELSE IF year - ParseYear(date) <= 5 THEN 15
    ELSE IF year - ParseYear(date) <= 10 THEN 10
    ELSE 0

\* calculateConfidence(company) of opencorporates.js.  A truthy
\* incorporation_date that is not a string has no method match.
calculateConfidenceCompanies(c, year) ==
    IF Truthy(Get(c, "incorporation_date")) /\ ~IsStr(c.incorporation_date)
    THEN TypeError
    ELSE Num(Minimum(100, RoundHundredths(
            40
            + (IF Truthy(Get(c, "current_status"))
                  /\ StatusMatch(c.current_status.s)
               THEN 30 ELSE 0)
            + (IF Truthy(Get(c, "incorporation_date"))
               THEN IncorporationBonus(c.incorporation_date.s, year) ELSE 0)
            + (IF Truthy(Get(c, "registered_address_in_full")) THEN 15 ELSE 0))))

\* The places and details an upstream answer can hold.
Places ==
    {[rating |-> r, user_ratings_total |-> n, business_status |-> s] :
        r \in {Undefined, Num(0), Num(35), Num(40), Num(47)},
        n \in {Undefined, Num(0), Num(9), Num(10), Num(200)},
        s \in {Undefined, Str(T_operational), Str(T_closed)}}

PlaceDetails ==
    {Null} \cup {[website |-> w, formatted_phone_number |-> f] :
                    w \in {Undefined, Str(T_web)},
                    f \in {Undefined, Str(T_phone)}}

DateChars == {"2", "0", "1", "8", "-"}
CurrentYears == {2024, 2028}

\* The companies an upstream answer can hold.
Companies ==
    {[current_status |-> s, incorporation_date |-> d,
      registered_address_in_full |-> a] :
        s \in {Undefined, Str(<<>>), Str(T_activeCaps), Str(T_dissolved),
               Str(T_inGoodStanding)},
        d \in {Undefined, Num(2018)}
              \cup {Str(x) : x \in SeqsUpTo(DateChars, MaxDate)},
        a \in {Undefined, Str(<<>>), Str(T_usa)}}

InitScore ==
    /\ PipeIdle
    /\ NormIdle
    /\ CollectIdle
    /\ FetchIdle
    /\ ppc = "idle" /\ llmResponse = <<>> /\ llmResult = Null
    /\ returned = Null
    /\ spc = "input"
    /\ \/ place \in Places /\ details \in PlaceDetails
          /\ company = Null /\ currentYear = 0
       \/ company \in Companies /\ currentYear \in CurrentYears
          /\ place = Null /\ details = Null
    /\ score = Null

\* confidence: calculateConfidence(place, detailedInfo)
ScorePlace ==
    /\ spc = "input"
    /\ place # Null
    /\ score' = calculateConfidencePlaces(place, details)
    /\ spc' = "scored"
    /\ UNCHANGED <<place, details, company, currentYear>>
    /\ UNCHANGED <<pipeVars, normVars, collectVars, parseVars, fetchVars, returned>>

\* confidence: calculateConfidence(company)
ScoreCompany ==
    /\ spc = "input"
    /\ company # Null
    /\ score' = calculateConfidenceCompanies(company, currentYear)
    /\ spc' = "scored"
    /\ UNCHANGED <<place, details, company, currentYear>>
    /\ UNCHANGED <<pipeVars, normVars, collectVars, parseVars, fetchVars, returned>>

NextScore == ScorePlace \/ ScoreCompany

SpecScore == InitScore /\ [][NextScore]_vars

(***************************************************************************)
(* Properties.                                                             *)
(***************************************************************************)
\* A field value is present when it is neither the absent-marker (null, or
\* undefined for a missing key) nor the empty string.
Present(v) == (IsStr(v) /\ v.s # <<>>) \/ v.t = "number"

KeySet == {keys[k] : k \in 1..Len(keys)}
IsMerge == lastMerge.kind = "merge"
DataFields == Fields \ {"notes"}

\* C1: for N input records with exactly K distinct deduplication keys,
\* deduplicateRecords returns exactly K records, one per distinct key, with
\* K <= N and K >= 1 whenever N >= 1.
C1_DedupCount ==
    pc = "done" =>
        /\ Len(keys) = Len(rows)
        /\ Len(out) = Cardinality(KeySet)
        /\ \A key \in KeySet :
              Cardinality({p \in 1..Len(out) :
                              order[p] = key /\ out[p] = seen[key]}) = 1
        /\ Len(out) <= Len(rows)
        /\ (Len(rows) >= 1 => Len(out) >= 1)

\* C1 witness: three records with two distinct keys give two records.
C1_Witness ==
    pc = "done" /\ Len(rows) = 3 /\ Cardinality(KeySet) = 2 /\ Len(out) = 2

\* The content of a deduplicated set that does not depend on the draws: per
\* record its key (every unique-tier key reads "unique:"), its confidence
\* and the set of its present fields.
ContentOf(st) ==
    {[key |-> IF startsWith(key, S_unique) THEN S_unique ELSE key,
      confidence |-> Get(st.seen[key], "confidence"),
      present |-> {f \in Fields : Present(Get(st.seen[key], f))}] :
        key \in DOMAIN st.seen}

Permuted(s, perm) == [k \in 1..Len(s) |-> s[perm[k]]]

DedupFinal(records) ==
    DedupLoop([seen |-> EmptyMap, order |-> <<>>, entropy |-> 0], records)

\* C2: the final content of deduplicateRecords does not depend on the input
\* order: every ordering of the same records gives the same keys and, per
\* key, the same confidence and the same set of present fields.
C2_OrderInvariant ==
    pc = "done" =>
        \A perm \in Permutations(1..Len(rows)) :
            LET other == DedupFinal(Permuted(rows, perm))
            IN  /\ Len(other.order) = Len(out)
                /\ ContentOf(other) = ContentOf([seen |-> seen])

\* C3: merging two records that share a key never loses a present field,
\* whichever confidence branch is taken: every field present in either
\* input is present in the merged record.
C3_MergeLossless ==
    IsMerge =>
        \A f \in Fields :
            (Present(Get(lastMerge.existing, f))
                \/ Present(Get(lastMerge.incoming, f)))
            => Present(Get(lastMerge.merged, f))

\* The notes of a merge: both inputs' notes joined by " | ", an absent one
\* skipped.
NotesJoined(m) ==
    LET e == Get(m.existing, "notes")
        i == Get(m.incoming, "notes")
        r == Get(m.merged, "notes")
    IN  /\ (Present(e) /\ Present(i)) => r = Str(e.s \o <<" ", "|", " ">> \o i.s)
        /\ (Present(e) /\ ~Present(i)) => r = e
        /\ (~Present(e) /\ Present(i)) => r = i

IncomingWins == IsMerge /\ lastMerge.incoming.confidence.n
                           > lastMerge.existing.confidence.n

\* C4: when incoming.confidence > existing.confidence, every field of the
\* merged record other than notes is incoming's value (a conflicting phone
\* takes incoming.phone) and notes is the two notes joined with " | ".
C4_HigherConfidenceWins ==
    IncomingWins =>
        /\ \A f \in DataFields :
              Get(lastMerge.merged, f) = Get(lastMerge.incoming, f)
        /\ NotesJoined(lastMerge)

\* C4 witness: a higher-confidence incoming record with a conflicting phone
\* and notes on both sides has been merged.
C4_Witness ==
    /\ IncomingWins
    /\ Present(lastMerge.existing.phone) /\ Present(lastMerge.incoming.phone)
    /\ lastMerge.existing.phone # lastMerge.incoming.phone
    /\ Present(lastMerge.existing.notes) /\ Present(lastMerge.incoming.notes)

ExistingStays == IsMerge /\ lastMerge.incoming.confidence.n
                            <= lastMerge.existing.confidence.n

Keyed(k) == rows[k]

HasNameZip(r) == Present(Get(r, "business_name")) /\ Present(Get(r, "postal_code"))

\* C6: the key is that of the first applicable tier in the order website,
\* composite, name-zip, source, unique; a record with a website keys as
\* "website:" + website even when name, phone and postal code are present,
\* and the name enters the other keys lower-cased.
C6_KeyTierPrecedence ==
    \A k \in 1..Len(keys) :
        LET r == Keyed(k)
            lname == toLowerCase(r.business_name.s)
        IN  /\ Present(r.website) =>
                 keys[k] = <<"w","e","b","s","i","t","e",":">> \o r.website.s
            /\ (~Present(r.website) /\ HasNameZip(r) /\ Present(r.phone)) =>
                 keys[k] = <<"c","o","m","p","o","s","i","t","e",":">> \o lname
                           \o <<":">> \o r.phone.s \o <<":">> \o r.postal_code.s
            /\ (~Present(r.website) /\ HasNameZip(r) /\ ~Present(r.phone)) =>
                 keys[k] = <<"n","a","m","e","-","z","i","p",":">> \o lname
                           \o <<":">> \o r.postal_code.s
            /\ (~Present(r.website) /\ ~HasNameZip(r) /\ Present(r.source_url)) =>
                 keys[k] = <<"s","o","u","r","c","e",":">> \o r.source_url.s
                           \o <<":">>
                           \o (IF Present(r.business_name) THEN lname
                               ELSE <<"u","n","k","n","o","w","n">>)
            /\ (~Present(r.website) /\ ~HasNameZip(r) /\ ~Present(r.source_url)) =>
                 startsWith(keys[k], <<"u","n","i","q","u","e",":">>)

\* C6 witness: a record with a website and with name, phone and postal code
\* has been keyed, and so has a record whose name is not lower-case.
C6_Witness ==
    /\ \E k \in 1..Len(keys) :
          /\ Present(Keyed(k).website) /\ HasNameZip(Keyed(k))
          /\ Present(Keyed(k).phone)
    /\ \E k \in 1..Len(keys) :
          /\ ~Present(Keyed(k).website) /\ HasNameZip(Keyed(k))
          /\ toLowerCase(Keyed(k).business_name.s) # Keyed(k).business_name.s

NoIdentity(r) ==
    /\ ~Present(Get(r, "website"))
    /\ ~HasNameZip(r)
    /\ ~Present(Get(r, "source_url"))

\* C7: a record with no website, no name + postal code pair and no source
\* url gets a key of its own, so it is never merged: every such input record
\* appears unchanged as its own output record.
C7_UniqueNeverMerged ==
    pc = "done" =>
        \A k \in 1..Len(rows) :
            NoIdentity(rows[k]) =>
                /\ \A j \in 1..Len(rows) : j # k => keys[j] # keys[k]
                /\ \E p \in 1..Len(out) : order[p] = keys[k] /\ out[p] = rows[k]

\* C7 witness: two records of identical content and no identity signal have
\* been deduplicated into two output records.
C7_Witness ==
    /\ pc = "done"
    /\ \E k, j \in 1..Len(rows) :
          k # j /\ rows[k] = rows[j] /\ NoIdentity(rows[k])
    /\ Len(out) >= 2

\* A canonical record: every field is there and is a value or the one
\* absent-marker null, never undefined and never the empty string.
Canonical(r) ==
    \A f \in Fields :
        /\ f \in DOMAIN r
        /\ r[f].t \in {"string", "number", "null"}
        /\ r[f] # Str(<<>>)

\* C8: every record produced by normalizeRecord, and every record stored or
\* emitted by deduplicateRecords when fed such records, has every field a
\* normalized value or null, never an empty string and never undefined.
C8_CanonicalInvariant ==
    pc \in {"dedup", "done"} =>
        /\ \A k \in 1..Len(rows) : Canonical(rows[k])
        /\ \A key \in DOMAIN seen : Canonical(seen[key])
        /\ \A p \in 1..Len(out) : Canonical(out[p])

\* The fields of the candidate whose value is neither a string nor absent.
Unexpected(c) ==
    {f \in DOMAIN c \ {"confidence"} : ~IsStr(c[f]) /\ ~IsNullish(c[f])}

\* C9: normalizeRecord never throws; a field value of an unexpected type
\* comes out as the absent-marker or as the raw value.
C9_NormalizeNeverThrows ==
    npc # "input" =>
        /\ norm1 # TypeError
        /\ \A f \in Unexpected(cand) : norm1[f] \in {Null, cand[f]}

\* C10: normalization is idempotent: normalizeRecord(normalizeRecord(r))
\* equals normalizeRecord(r) field for field (so do normalizePhone and
\* normalizeUrl on the phone and the website).
C10_NormalizeIdempotent ==
    npc = "twice" => \A f \in Fields : norm2[f] = norm1[f]

(***************************************************************************)
(* Field normalizer properties, on the candidate handed to normalizeRecord *)
(* and its result.                                                         *)
(***************************************************************************)
Normalized == npc # "input" /\ norm1 # TypeError

PhoneIn == Get(cand, "phone")
PlusInput == IsStr(PhoneIn) /\ startsWith(PhoneIn.s, <<"+">>)
DigitsOf(s) == SelectSeq(s, LAMBDA c : c \in {"0","1","2","3","4","5","6","7","8","9"})

\* C11: normalizePhone returns every input string that starts
\* with "+" unchanged, whatever the number of digits it contains.
C11_PlusVerbatim ==
    (Normalized /\ PlusInput) => norm1.phone = PhoneIn

\* C12: an absent phone gives the absent-marker; an input that does not
\* start with "+" gives "+1" + digits for exactly 10 digits, and "+" +
\* digits for 11 digits starting with 1 and in every other case.
C12_PhoneRules ==
    Normalized =>
        /\ IsNullish(PhoneIn) => norm1.phone = Null
        /\ (IsStr(PhoneIn) /\ PhoneIn.s # <<>> /\ ~PlusInput) =>
              LET d == DigitsOf(PhoneIn.s)
              IN  norm1.phone = IF Len(d) = 10 THEN Str(<<"+", "1">> \o d)
                                ELSE Str(<<"+">> \o d)

\* C12 witness: a formatted 10-digit input without "+" has been normalized.
C12_Witness ==
    /\ Normalized /\ IsStr(PhoneIn) /\ ~PlusInput
    /\ Len(DigitsOf(PhoneIn.s)) = 10
    /\ Len(PhoneIn.s) > 10
    /\ norm1.phone = Str(<<"+", "1">> \o DigitsOf(PhoneIn.s))

UrlIn == Get(cand, "website")
HasScheme(s) == startsWith(s, <<"h","t","t","p",":","/","/">>)
                \/ startsWith(s, <<"h","t","t","p","s",":","/","/">>)
Provisional(s) == IF HasScheme(s) THEN s
                  ELSE <<"h","t","t","p","s",":","/","/">> \o s
UrlInput == IsStr(UrlIn) /\ UrlIn.s # <<>>
Parses == UrlInput /\ URLParse(Provisional(UrlIn.s)).ok

\* C13: normalizeUrl fails open: when the input, with a scheme provisionally
\* added, does not parse as a URL, the original input string is returned
\* unchanged.
C13_FailOpenUnchanged ==
    (Normalized /\ UrlInput /\ ~Parses) => norm1.website = UrlIn

\* C14: for every input that parses as a URL, normalizeUrl returns a string
\* that starts with "https://", has no "www." host prefix and no trailing
\* slash.
C14_HttpsNoWwwNoSlash ==
    (Normalized /\ Parses) =>
        LET r == norm1.website.s
        IN  /\ startsWith(r, <<"h","t","t","p","s",":","/","/">>)
            /\ ~startsWith(r, <<"h","t","t","p","s",":","/","/","w","w","w",".">>)
            /\ ~startsWith(r, <<"h","t","t","p",":","/","/","w","w","w",".">>)
            /\ r[Len(r)] # "/"

ConfIn == Get(cand, "confidence")

\* C15: the confidence of every record returned by
\* normalizeRecord is a number in [0,1], 0.5 when the candidate supplied no
\* number and the supplied number otherwise.
C15_ConfidenceInUnit ==
    Normalized =>
        /\ norm1.confidence.t = "number"
        /\ norm1.confidence.n >= 0 /\ norm1.confidence.n <= 100
        /\ norm1.confidence = IF ConfIn.t = "number" THEN ConfIn ELSE Num(50)

(***************************************************************************)
(* Properties of collectFromAllSources.                                    *)
(***************************************************************************)
Returned == cpc = "done"
CallsOf(kinds) == {k \in 1..Len(calls) : calls[k].kind \in kinds}
Threw == CallsOf({"threw"})

RECURSIVE Flatten(_)
Flatten(cs) ==
    IF cs = <<>> THEN <<>> ELSE Head(cs).records \o Flatten(Tail(cs))

\* The sources whose call gave at least one record, in call order.
Productive ==
    LET sel == SelectSeq(calls, LAMBDA c : Len(c.records) > 0)
    IN  [k \in 1..Len(sel) |-> sel[k].source]

SameContent(a, b) ==
    /\ Len(a) = Len(b)
    /\ \A r \in {a[k] : k \in 1..Len(a)} \cup {b[k] : k \in 1..Len(b)} :
          Cardinality({k \in 1..Len(a) : a[k] = r})
              = Cardinality({k \in 1..Len(b) : b[k] = r})

RowKeys(rs) == {getDeduplicationKey(rs[k], 0) : k \in 1..Len(rs)}

\* C16: a fetcher that throws does not abort collectFromAllSources: an error
\* entry with its source name is recorded, it contributes no candidate, the
\* other source is still called and its records are returned (one row per
\* distinct record), and sources_used lists exactly the sources that returned
\* at least one record.
C16_ThrowingSourceIsolated ==
    /\ \A k \in Threw :
          \E e \in 1..Len(errors) :
              errors[e].source = calls[k].source /\ errors[e].error.t = "string"
    /\ Len(errors) = Cardinality(Threw)
    /\ cpc \in {"opencorporates", "combine", "done"} =>
          (googleKey <=> \E k \in 1..Len(calls) : calls[k].source = GooglePlaces)
    /\ cpc \in {"combine", "done"} =>
          /\ \E k \in 1..Len(calls) : calls[k].source = OpenCorporates
          /\ allResults = Flatten(calls)
          /\ sourcesUsed = Productive
    /\ (Returned /\ Threw # {}) =>
          /\ result.meta.sources_used = Array(Productive)
          /\ result.meta.errors = Array(errors)
          /\ \A k \in 1..Len(calls) :
                (calls[k].kind # "threw" /\ Cardinality(Threw) = Len(calls) - 1) =>
                    /\ Len(result.rows) = Cardinality(RowKeys(calls[k].records))
                    /\ SameContent(result.rows,
                                   deduplicateRecords(calls[k].records, 0))

\* C16 witness: Google Places threw, OpenCorporates returned three distinct
\* records; three rows, sources_used = [OpenCorporates], one error entry.
C16_Witness ==
    /\ Returned
    /\ Len(calls) = 2
    /\ calls[1].source = GooglePlaces /\ calls[1].kind = "threw"
    /\ calls[2].kind = "returned"
    /\ Cardinality(RowKeys(calls[2].records)) = 3
    /\ Len(result.rows) = 3
    /\ result.meta.sources_used = Array(<<OpenCorporates>>)
    /\ result.meta.errors =
          Array(<<[source |-> GooglePlaces, error |-> Str(T_message)]>>)

\* The calls that failed and gave no record.
FailedEmpty ==
    {k \in CallsOf({"threw", "requestFailed"}) : calls[k].records = <<>>}

\* C17: if every source fails, the orchestrator does not throw and returns a
\* result with empty rows, total_found 0 and the error set in meta; the
\* failure is reported through the returned metadata.
C17_AllFailedReported ==
    (Returned /\ Cardinality(FailedEmpty) = Len(calls)) =>
        /\ result.rows = <<>>
        /\ result.meta.total_found = Num(0)
        /\ \/ Get(result.meta, "error") # Undefined
           \/ Get(result.meta, "errors") # Undefined

AllDigits(s) == \A k \in 1..Len(s) : IsDigit(s[k])

CanonicalPhone(v) ==
    v = Null \/ (IsStr(v) /\ Len(v.s) > 1 /\ Head(v.s) = "+" /\ AllDigits(Tail(v.s)))

CanonicalWebsite(v) == v = Null \/ (IsStr(v) /\ normalizeUrl(v) = v)

UpperCased(v) == v = Null \/ (IsStr(v) /\ toUpperCase(v.s) = v.s)

\* C18: every candidate goes through the Record Normalizer before the
\* Deduplication Engine, so every row returned by collectFromAllSources is
\* canonical: phone in "+digits" form, website canonicalized, country and
\* state upper-cased.
C18_RowsNormalized ==
    Returned =>
        \A k \in 1..Len(result.rows) :
            /\ CanonicalPhone(result.rows[k].phone)
            /\ CanonicalWebsite(result.rows[k].website)
            /\ UpperCased(result.rows[k].country)
            /\ UpperCased(result.rows[k].state)

\* The position of a row in the output of the Deduplication Engine.
FirstSeen(r) ==
    LET d == deduplicateRecords(allResults, 0)
    IN  CHOOSE k \in 1..Len(d) : d[k] = r

\* C19: the rows returned by collectFromAllSources are in non-increasing
\* order of confidence, rows of equal confidence keep the first-seen-key order
\* of the Deduplication Engine, there are at most maxResults rows, and
\* meta.total_found is the number of rows.
C19_SortedStableTruncated ==
    Returned =>
        LET rs == result.rows
            d == deduplicateRecords(allResults, 0)
        IN  /\ \A i \in 1..Len(rs) : \E k \in 1..Len(d) : d[k] = rs[i]
            /\ \A i, j \in 1..Len(rs) :
                  i < j =>
                     /\ rs[i].confidence.n >= rs[j].confidence.n
                     /\ rs[i].confidence.n = rs[j].confidence.n
                           => FirstSeen(rs[i]) < FirstSeen(rs[j])
            /\ Len(rs) <= maxResults
            /\ result.meta.total_found = Num(Len(rs))

\* C19 witness: a returned result in which the sort moved a row forward,
\* two rows of equal confidence kept their order, and a row was cut off.
C19_Witness ==
    /\ Returned
    /\ LET rs == result.rows
           d == deduplicateRecords(allResults, 0)
       IN  /\ Len(d) > maxResults
           /\ Len(rs) = maxResults
           /\ \E i, j \in 1..Len(rs) :
                 i < j /\ rs[i].confidence = rs[j].confidence
           /\ \E i, j \in 1..Len(rs) :
                 i < j /\ FirstSeen(rs[i]) > FirstSeen(rs[j])

\* C20: every result returned by the orchestrator carries
\* meta.duplicates_removed, the number of candidates before deduplication
\* minus the number of records after it.
C20_DuplicatesRemoved ==
    Returned =>
        Get(result.meta, "duplicates_removed")
            = Num(Len(allResults) - Len(deduplicateRecords(allResults, 0)))

(***************************************************************************)
(* Properties of the pipeline of orchestrate, continued.                   *)
(***************************************************************************)
StripPrefix(s, p) == IF startsWith(s, p) THEN SubSeq(s, Len(p) + 1, Len(s)) ELSE s

\* A website without its scheme, its "www." prefix and its trailing slash.
SiteOf(s) ==
    LET a == StripPrefix(StripPrefix(s, <<"h","t","t","p","s",":","/","/">>),
                         <<"h","t","t","p",":","/","/">>)
        b == StripPrefix(a, <<"w","w","w",".">>)
    IN  IF b # <<>> /\ b[Len(b)] = "/" THEN SubSeq(b, 1, Len(b) - 1) ELSE b

Contains(s, sub) ==
    \E k \in 0..(Len(s) - Len(sub)) : SubSeq(s, k + 1, k + Len(sub)) = sub

\* Two candidates for one business: websites equal up to scheme, "www." and
\* trailing slash, phones equal up to formatting.
SameBusiness(a, b) ==
    /\ Present(a.website) /\ Present(b.website)
    /\ SiteOf(a.website.s) = SiteOf(b.website.s)
    /\ Present(a.phone) /\ Present(b.phone)
    /\ DigitsOf(a.phone.s) = DigitsOf(b.phone.s)

BestConfidence(rs) ==
    CHOOSE c \in {rs[k].confidence.n : k \in 1..Len(rs)} :
        \A k \in 1..Len(rs) : rs[k].confidence.n <= c

\* C21: end to end, two candidates for the same business whose websites
\* differ only by scheme, "www." or trailing slash and whose phones differ
\* only in formatting give exactly one row with the normalized website and
\* phone, the higher confidence, notes containing the notes of the
\* higher-confidence candidate, and meta.duplicates_removed = 1.
C21_EndToEndMerge ==
    (pc = "done" /\ Len(rows) = 2 /\ SameBusiness(rows[1], rows[2])) =>
        /\ Len(out) = 1
        /\ returned.rows = out
        /\ out[1].website
             = Str(<<"h","t","t","p","s",":","/","/">> \o SiteOf(rows[1].website.s))
        /\ out[1].phone \in {rows[1].phone, rows[2].phone}
        /\ out[1].confidence.n = BestConfidence(rows)
        /\ \A k \in 1..2 :
              (rows[k].confidence.n = BestConfidence(rows) /\ Present(rows[k].notes))
                  => Contains(out[1].notes.s, rows[k].notes.s)
        /\ Get(returned.meta, "duplicates_removed") = Num(1)

\* The iteration at which a key was first computed.
FirstIndex(key) ==
    CHOOSE k \in 1..Len(keys) :
        keys[k] = key /\ \A j \in 1..(k - 1) : keys[j] # key

\* C22: deduplicateRecords emits its records in first-seen-key order: the
\* record of k1 precedes the record of k2 exactly when the first input record
\* with key k1 arrives before the first one with key k2, and a later merge
\* into a key never changes its position.
C22_FirstSeenOrder ==
    pc \in {"dedup", "done"} =>
        /\ {order[p] : p \in 1..Len(order)} = KeySet
        /\ \A p, q \in 1..Len(order) :
              p < q <=> FirstIndex(order[p]) < FirstIndex(order[q])
        /\ pc = "done" =>
              /\ Len(out) = Len(order)
              /\ \A p \in 1..Len(out) : out[p] = seen[order[p]]

\* C22 witness: the third record merged into the key of the first one, after
\* a second key was seen, and the merged record is still emitted first.
C22_Witness ==
    /\ pc = "done"
    /\ Len(keys) = 3
    /\ keys[1] = keys[3] /\ keys[1] # keys[2]
    /\ order = <<keys[1], keys[2]>>
    /\ out[1] = lastMerge.merged
    /\ out[1] # rows[1]

GroupConfidences(key) ==
    {rows[k].confidence.n : k \in {j \in 1..Len(keys) : keys[j] = key}}

TierOf(r) ==
    IF Present(r.website) THEN "website"
    ELSE IF HasNameZip(r) /\ Present(r.phone) THEN "composite"
    ELSE IF HasNameZip(r) THEN "name-zip"
    ELSE IF Present(r.source_url) THEN "source"
    ELSE "unique"

LowerName(r) ==
    IF Present(r.business_name) THEN toLowerCase(r.business_name.s) ELSE <<>>

Components(r) ==
    CASE TierOf(r) = "website" -> <<r.website>>
      [] TierOf(r) = "composite" -> <<LowerName(r), r.phone, r.postal_code>>
      [] TierOf(r) = "name-zip" -> <<LowerName(r), r.postal_code>>
      [] TierOf(r) = "source" -> <<r.source_url, LowerName(r)>>
      [] OTHER -> <<>>

Malformed(s) ==
    /\ ~JSONparse(s).ok
    /\ \A i, j \in 1..Len(s) : i <= j => ~JSONparse(SubSeq(s, i, j)).ok

\* C24: malformed generative text (not JSON, no JSON inside a fence, no
\* parseable JSON object in it) always surfaces as a failure: parseLLMResponse
\* throws and orchestrate returns a result with meta.error set, never empty
\* rows without an error.
C24_MalformedSurfaces ==
    (ppc = "done" /\ llmResult # Null /\ Malformed(llmResponse)) =>
        /\ ~llmResult.ok
        /\ Get(returned.meta, "error") # Undefined
        /\ "rows" \in DOMAIN returned /\ returned.rows = <<>>

\* C24 witness: a fenced group that is not JSON made the parser throw a
\* SyntaxError and orchestrate returned the error result.
C24_Witness ==
    /\ ppc = "done"
    /\ llmResult # Null
    /\ Malformed(llmResponse)
    /\ FenceMatch(llmResponse).found
    /\ llmResult.error = "SyntaxError"
    /\ returned = ErrorResult

(***************************************************************************)
(* Properties of the fetchers.                                             *)
(***************************************************************************)
FetchDone == fpc \in {"returned", "threw"}
Requests == {k \in 1..Len(events) : events[k] = "request"}

RECURSIVE Concat(_)
Concat(ss) == IF ss = <<>> THEN <<>> ELSE Head(ss) \o Concat(Tail(ss))

\* C26: if a page request fails after the fetcher has gathered k records
\* from earlier pages, the fetcher returns exactly those k records: it
\* neither throws nor returns an empty sequence.
C26_PartialResultsReturned ==
    (FetchDone /\ events # <<>> /\ events[Len(events)] = "failure") =>
        /\ fpc = "returned"
        /\ fout.ok
        /\ fout.value = Concat(gathered)

\* C26 witness: the second page request failed after the first page gave
\* two records, and those two records were returned.
C26_Witness ==
    /\ fpc = "returned"
    /\ Cardinality(Requests) = 2
    /\ events[Len(events)] = "failure"
    /\ Len(gathered) = 1 /\ Len(gathered[1]) = 2
    /\ fout.value = gathered[1]

\* C27: within one fetcher call the page requests are serialized and every
\* page request after the first is preceded by the inter-page delay: a
\* request is sent only after the previous one has settled and a delay has
\* then completed.
C27_DelayBetweenRequests ==
    \A k \in Requests :
        /\ k < Len(events) => events[k + 1] \in {"response", "failure"}
        /\ k > 1 => /\ events[k - 1] = "delay"
                    /\ k > 2 /\ events[k - 2] = "response"

\* C27 witness: a fetcher call that made three page requests has returned.
C27_Witness ==
    /\ fpc = "returned"
    /\ Cardinality(Requests) = 3
    /\ Cardinality({k \in 1..Len(events) : events[k] = "delay"}) >= 2

\* C29: the pagination loop terminates with at most maxResults records even
\* if the upstream always reports a further page: every iteration exits the
\* loop or appends at least one record, so the number of requests never
\* exceeds the number of records asked for, and the call ends.
C29_LoopTerminates ==
    /\ [](/\ Len(results) <= fmax
          /\ Cardinality(Requests) <= fmax
          /\ \A k \in 1..Len(gathered) :
                Len(gathered[k]) >= 1 \/ (k = Len(gathered) /\ FetchDone)
          /\ ~FetchDone => Cardinality(Requests) <= Len(gathered) + 1
          /\ (fpc = "returned") => Len(fout.value) <= fmax)
    /\ (fpc = "start") ~> FetchDone

\* C29 witness: the upstream reported a further page after every page, and
\* the call ended with maxResults records after as many requests.
C29_Witness ==
    /\ fpc = "returned"
    /\ fmax = MaxFetch
    /\ Cardinality(Requests) = fmax
    /\ nextPageToken \/ page > fmax
    /\ Len(fout.value) = fmax

====
